---- MODULE Spec2Model ----
(***************************************************************************)
(* Model of convert-suite-exports/utils/reader.py: the conversion of       *)
(* annotation project exports (death-valley, siesta-v1, siesta-v2) into    *)
(* COCO images, categories and annotations.                                *)
(*                                                                         *)
(* Python values are modelled as follows.  A dict with fixed keys is a     *)
(* record, a list is a sequence, None is the string "None".  A call that   *)
(* raises returns a record with ok = FALSE and the exception's name; a     *)
(* call that returns has ok = TRUE and the returned values.                *)
(*                                                                         *)
(* The arguments carry every key the code reads (a missing key is a        *)
(* KeyError at the place of the read and is not modelled, except where a   *)
(* lookup is by a value of the data: a class name, an image id); their     *)
(* lists and maps have any length within the bounds, the empty one         *)
(* included.                                                               *)
(*                                                                         *)
(* There is one specification per entry point: SpecProject (read_project), *)
(* SpecMeta (read_meta), SpecMulti (convert_multi_polygon_to_coco) and,    *)
(* for read_labels, SpecLabels (several labels), SpecTranslate (one label  *)
(* of several objects) and SpecQuant (one object with fraction digits).    *)
(***************************************************************************)
EXTENDS Integers, Sequences, FiniteSets, TLC

VARIABLES
    phase,          \* "input": arguments chosen, call not made; "run"; "done"
    project_json,   \* argument of read_project
    project_result, \* what read_project returned or raised
    meta_map,       \* argument of read_meta (items in iteration order)
    meta_result,    \* what read_meta returned or raised
    labels,         \* argument of read_labels (items in iteration order)
    project_type,   \* argument of read_labels
    categories,     \* argument of read_labels
    images,         \* argument of read_labels
    label_idx,      \* number of labels read_labels has finished
    annotations,    \* read_labels: the list built so far
    labels_result,  \* what read_labels returned or raised
    points,         \* argument of convert_multi_polygon_to_coco
    image,          \* argument of convert_multi_polygon_to_coco
    multi_result    \* what convert_multi_polygon_to_coco returned

vars == <<phase, project_json, project_result, meta_map, meta_result, labels,
          project_type, categories, images, label_idx, annotations,
          labels_result, points, image, multi_result>>

None == "None"
Pending == [ok |-> FALSE, error |-> "pending"]
Raise(e) == [ok |-> FALSE, error |-> e]

(***************************************************************************)
(* Sequences of bounded length over a set.                                 *)
(***************************************************************************)
SeqUpTo(S, n) == UNION {[1..k -> S] : k \in 0..n}

\* dict.get(k): the value under k, or None
DictGet(d, k) == IF k \in DOMAIN d THEN d[k] ELSE None

(***************************************************************************)
(* semver.compare(v, '0.4.0').  A version is major.minor.patch with an     *)
(* optional prerelease tag; a version that does not parse raises.          *)
(***************************************************************************)
Cmp(a, b) == IF a < b THEN -1 ELSE IF a > b THEN 1 ELSE 0

Threshold ==
    [valid |-> TRUE, major |-> 0, minor |-> 4, patch |-> 0, prerelease |-> None]

SemverCompare(v1, v2) ==
    IF Cmp(v1.major, v2.major) # 0 THEN Cmp(v1.major, v2.major)
    ELSE IF Cmp(v1.minor, v2.minor) # 0 THEN Cmp(v1.minor, v2.minor)
    ELSE IF Cmp(v1.patch, v2.patch) # 0 THEN Cmp(v1.patch, v2.patch)
    ELSE IF v1.prerelease = v2.prerelease THEN 0
    ELSE IF v1.prerelease = None THEN 1
    ELSE IF v2.prerelease = None THEN -1
    ELSE 0

(***************************************************************************)
(* read_siesta_project                                                     *)
(***************************************************************************)
RECURSIVE SiestaGroupNames(_, _, _)
\* {o_id: g['name'] for g in object_groups for o_id in g['object_class_ids']}
\* built group by group; a later group overwrites an earlier one's entry
SiestaGroupNames(groups, i, d) ==
    IF i > Len(groups) THEN d
    ELSE SiestaGroupNames(groups, i + 1,
            [k \in DOMAIN d \cup groups[i].object_class_ids |->
                IF k \in groups[i].object_class_ids THEN groups[i].name
                ELSE d[k]])

RECURSIVE SiestaCategoriesByIndex(_, _, _, _)
\* a variant that numbers a category by its class's position in the list
SiestaCategoriesByIndex(classes, group_name, i, cats) ==
    IF i > Len(classes) THEN cats
    ELSE IF classes[i].annotation_type \in {"box", "polygon"}
    THEN SiestaCategoriesByIndex(classes, group_name, i + 1,
            Append(cats, [id |-> i,
                          name |-> classes[i].name,
                          supercategory |-> DictGet(group_name, classes[i].id)]))
    ELSE SiestaCategoriesByIndex(classes, group_name, i + 1, cats)

RECURSIVE SiestaCategories(_, _, _, _)
\* the loop over object_classes, cats being the list built so far
SiestaCategories(classes, group_name, i, cats) ==
    IF i > Len(classes) THEN cats
    ELSE IF classes[i].annotation_type \in {"box", "polygon"}
    THEN SiestaCategories(classes, group_name, i + 1,
            Append(cats, [id |-> Len(cats) + 1,
                          name |-> classes[i].name,
                          supercategory |-> DictGet(group_name, classes[i].id)]))
    ELSE SiestaCategories(classes, group_name, i + 1, cats)

SiestaDialect(version) ==
    IF SemverCompare(version, Threshold) < 0 THEN "siesta-v1" ELSE "siesta-v2"

read_siesta_project(pj) ==
    IF ~pj.version.valid THEN Raise("ValueError")
    ELSE [ok |-> TRUE,
          project_type |-> SiestaDialect(pj.version),
          categories |->
              SiestaCategories(pj.object_detection.object_classes,
                  SiestaGroupNames(pj.object_detection.object_groups, 1, <<>>),
                  1, <<>>)]

(***************************************************************************)
(* read_death_valley_project                                               *)
(***************************************************************************)
RECURSIVE DeathValleyGroupNames(_, _, _)
\* {o_name: g['name'] for g in groups for o_name in g['info']['classes']}
DeathValleyGroupNames(groups, i, d) ==
    IF i > Len(groups) THEN d
    ELSE DeathValleyGroupNames(groups, i + 1,
            [k \in DOMAIN d \cup groups[i].info.classes |->
                IF k \in groups[i].info.classes THEN groups[i].name
                ELSE d[k]])

RECURSIVE DeathValleyCategories(_, _, _, _)
\* the loop over objects; shapes[0] of an empty key list raises IndexError
DeathValleyCategories(objects, group_name, i, cats) ==
    IF i > Len(objects) THEN [ok |-> TRUE, categories |-> cats]
    ELSE LET o == objects[i]
             shapes == o.info.shapes
         IN  IF Len(shapes) = 0 THEN Raise("IndexError")
             ELSE IF shapes[1] \in {"box", "polygon"}
             THEN DeathValleyCategories(objects, group_name, i + 1,
                     Append(cats, [id |-> o.class_id,
                                   name |-> o.class_name,
                                   supercategory |->
                                       DictGet(group_name, o.class_name)]))
             ELSE DeathValleyCategories(objects, group_name, i + 1, cats)

read_death_valley_project(pj) ==
    LET r == DeathValleyCategories(pj.objects,
                 DeathValleyGroupNames(pj.groups, 1, <<>>), 1, <<>>)
    IN  IF r.ok
        THEN [ok |-> TRUE, project_type |-> "death-valley",
              categories |-> r.categories]
        ELSE r

(***************************************************************************)
(* read_project                                                            *)
(***************************************************************************)
Absent == "<absent>"

\* project_json.get('type', 'image-default')
TypeOf(pj) == IF pj.type = Absent THEN "image-default" ELSE pj.type

read_project(pj) ==
    IF TypeOf(pj) = "image-siesta" THEN read_siesta_project(pj)
    ELSE IF TypeOf(pj) = "image-default" THEN read_death_valley_project(pj)
    ELSE Raise("NotImplementedError")

(***************************************************************************)
(* Project descriptors.                                                    *)
(***************************************************************************)
MaxClasses == 2
MaxGroups == 2

V(ma, mi, pa, pre) ==
    [valid |-> TRUE, major |-> ma, minor |-> mi, patch |-> pa, prerelease |-> pre]

Malformed ==
    [valid |-> FALSE, major |-> 0, minor |-> 0, patch |-> 0, prerelease |-> None]

Versions ==
    {V(0, 3, 9, None), V(0, 4, 0, "rc"), V(0, 4, 0, None), V(0, 10, 0, None),
     V(1, 3, 0, "rc"), Malformed}

Names == {"car", "dog"}
ClassIds == {10, 20}
AnnotationTypes == {"box", "polygon", "keypoint"}
ShapeKeyLists ==
    {<<>>, <<"box">>, <<"keypoint">>, <<"keypoint", "polygon">>,
     <<"polygon", "keypoint">>}

SiestaClasses ==
    [id : ClassIds, name : Names, annotation_type : AnnotationTypes]
SiestaGroups ==
    {[name |-> "g1", object_class_ids |-> {10}],
     [name |-> "g2", object_class_ids |-> {10, 20}]}
DeathValleyObjects ==
    [class_id : {3, 7}, class_name : Names, info : [shapes : ShapeKeyLists]]
DeathValleyGroups ==
    {[name |-> "g1", info |-> [classes |-> {"car"}]],
     [name |-> "g2", info |-> [classes |-> {"car", "dog"}]]}

NoSiesta == [object_groups |-> <<>>, object_classes |-> <<>>]

SiestaDescriptors ==
    [type : {"image-siesta"}, version : Versions,
     object_detection : [object_groups : SeqUpTo(SiestaGroups, MaxGroups),
                         object_classes : SeqUpTo(SiestaClasses, MaxClasses)],
     groups : {<<>>}, objects : {<<>>}]

DeathValleyDescriptors ==
    [type : {Absent, "image-default"}, version : {Malformed},
     object_detection : {NoSiesta},
     groups : SeqUpTo(DeathValleyGroups, MaxGroups),
     objects : SeqUpTo(DeathValleyObjects, MaxClasses)]

OtherDescriptors ==
    [type : {"image-other", None}, version : Versions,
     object_detection : {NoSiesta}, groups : {<<>>}, objects : {<<>>}]

Descriptors == SiestaDescriptors \cup DeathValleyDescriptors \cup OtherDescriptors

(***************************************************************************)
(* Specification of read_project: a descriptor is chosen, then read.       *)
(***************************************************************************)
InitProject ==
    /\ phase = "input"
    /\ project_json \in Descriptors
    /\ project_result = Pending
    /\ meta_map = <<>>
    /\ meta_result = Pending
    /\ labels = <<>>
    /\ project_type = None
    /\ categories = <<>>
    /\ images = <<>>
    /\ label_idx = 0
    /\ annotations = <<>>
    /\ labels_result = Pending
    /\ points = <<>>
    /\ image = [width |-> 0, height |-> 0]
    /\ multi_result = Pending

ReadProject ==
    /\ phase = "input"
    /\ phase' = "done"
    /\ project_result' = read_project(project_json)
    /\ UNCHANGED <<project_json, meta_map, meta_result, labels, project_type,
                   categories, images, label_idx, annotations, labels_result,
                   points, image, multi_result>>

NextProject == ReadProject

SpecProject == InitProject /\ [][NextProject]_vars

(***************************************************************************)
(* Properties of read_project.                                             *)
(***************************************************************************)
\* the indices of s whose element satisfies the membership test, as a set
Kept(s, field, allowed) == {i \in DOMAIN s : s[i][field] \in allowed}

\* the k-th smallest element of a set of indices
Kth(S, k) == CHOOSE i \in S : Cardinality({j \in S : j <= i}) = k

\* the name of the last group whose member set holds key, or None;
\* members[g] is the member set of groups[g]
LastGroupName(groups, members, key) ==
    LET listing == {g \in DOMAIN groups : key \in members[g]}
    IN  IF listing = {} THEN None
        ELSE groups[CHOOSE g \in listing : \A h \in listing : h <= g].name

\* the version is below 0.4.0 in semantic-version order
Below040(v) ==
    /\ v.major = 0
    /\ \/ v.minor < 4
       \/ v.minor = 4 /\ v.patch = 0 /\ v.prerelease # None

\* C1: a siesta descriptor with a version below 0.4.0 yields siesta-v1, one
\* with a version at or above 0.4.0 yields siesta-v2, a descriptor whose type
\* is absent or image-default yields death-valley, and any other type fails
\* and returns neither a dialect nor a category list.
C1_DialectFromTypeAndVersion ==
    phase = "done" =>
        /\ (project_json.type = "image-siesta" /\ project_json.version.valid) =>
              /\ project_result.ok
              /\ project_result.project_type =
                    IF Below040(project_json.version)
                    THEN "siesta-v1" ELSE "siesta-v2"
        /\ project_json.type \in {Absent, "image-default"} =>
              /\ project_result.ok
              /\ project_result.project_type = "death-valley"
        /\ project_json.type \notin {Absent, "image-default", "image-siesta"} =>
              /\ ~project_result.ok
              /\ DOMAIN project_result = {"ok", "error"}

\* C2: for a siesta descriptor the categories are exactly the classes of
\* annotation type box or polygon, in list order, the k-th one with id k;
\* other classes are skipped and consume no id.
C2_SiestaIdsDense ==
    (phase = "done" /\ project_json.type = "image-siesta"
        /\ project_json.version.valid) =>
        LET classes == project_json.object_detection.object_classes
            kept == Kept(classes, "annotation_type", {"box", "polygon"})
            cats == project_result.categories
        IN  /\ project_result.ok
            /\ Len(cats) = Cardinality(kept)
            /\ \A k \in 1..Len(cats) :
                  /\ cats[k].id = k
                  /\ cats[k].name = classes[Kth(kept, k)].name
                  /\ cats[k].supercategory =
                        LET groups ==
                                project_json.object_detection.object_groups
                        IN  LastGroupName(groups,
                                [g \in DOMAIN groups |->
                                    groups[g].object_class_ids],
                                classes[Kth(kept, k)].id)

C2_Witness ==
    /\ phase = "done"
    /\ project_json.type = "image-siesta"
    /\ project_result.ok
    /\ Len(project_json.object_detection.object_classes) = 2
    /\ project_json.object_detection.object_classes[1].annotation_type = "keypoint"
    /\ project_json.object_detection.object_classes[2].annotation_type = "polygon"
    /\ Len(project_result.categories) = 1
    /\ project_result.categories[1].id = 1

\* what C3 says read_death_valley_project returns for the objects
DeathValleyExpected(pj, cats) ==
    LET kept == {i \in DOMAIN pj.objects :
                    /\ Len(pj.objects[i].info.shapes) > 0
                    /\ pj.objects[i].info.shapes[1] \in {"box", "polygon"}}
    IN  /\ Len(cats) = Cardinality(kept)
        /\ \A k \in 1..Len(cats) :
              LET o == pj.objects[Kth(kept, k)]
              IN  /\ cats[k].id = o.class_id
                  /\ cats[k].name = o.class_name
                  /\ cats[k].supercategory =
                        LastGroupName(pj.groups,
                            [g \in DOMAIN pj.groups |->
                                pj.groups[g].info.classes],
                            o.class_name)

\* C3: for a death-valley descriptor a category is emitted for an object
\* exactly when the first key of its shape map is box or polygon, in object
\* order, with the object's class_id, class_name and group name (or None);
\* every other object is skipped and the conversion does not fail.
C3_FirstKeyWins ==
    (phase = "done" /\ project_json.type \in {Absent, "image-default"}) =>
        /\ project_result.ok
        /\ DeathValleyExpected(project_json, project_result.categories)

\* The part of C3 the code satisfies: when every object has at least one
\* shape key the categories are as C3 says, and when some object has an empty
\* shape map the conversion fails.
C3_WhenEveryObjectHasAShapeKey ==
    (phase = "done" /\ project_json.type \in {Absent, "image-default"}) =>
        IF \A i \in DOMAIN project_json.objects :
               Len(project_json.objects[i].info.shapes) > 0
        THEN /\ project_result.ok
             /\ project_result.project_type = "death-valley"
             /\ DeathValleyExpected(project_json, project_result.categories)
        ELSE ~project_result.ok

(***************************************************************************)
(* read_meta.  meta_map is the sequence of the mapping's items in          *)
(* iteration order: key = <<dataset, data_key>>, meta = the value.         *)
(***************************************************************************)
RECURSIVE ReadMetaKeepFirst(_, _, _, _)
\* a variant that keeps a label's first image instead of overwriting it
ReadMetaKeepFirst(items, i, imgs, lbls) ==
    IF i > Len(items) THEN [ok |-> TRUE, images |-> imgs, labels |-> lbls]
    ELSE LET meta == items[i].meta
             idx == i - 1
         IN  IF \/ "height" \notin DOMAIN meta.image_info
                \/ "width" \notin DOMAIN meta.image_info
             THEN Raise("Exception")
             ELSE ReadMetaKeepFirst(items, i + 1,
                     Append(imgs, [id |-> idx,
                                   license |-> None,
                                   dataset |-> items[i].key[1],
                                   file_name |-> items[i].key[2],
                                   height |-> meta.image_info.height,
                                   width |-> meta.image_info.width,
                                   date_captured |-> None]),
                     [k \in DOMAIN lbls \cup {meta.label_id} |->
                         IF k \in DOMAIN lbls THEN lbls[k]
                         ELSE [image_id |-> idx]])

RECURSIVE ReadMetaLoop(_, _, _, _)
\* the loop over enumerate(meta_map.items()); idx is 0-based
ReadMetaLoop(items, i, imgs, lbls) ==
    IF i > Len(items) THEN [ok |-> TRUE, images |-> imgs, labels |-> lbls]
    ELSE LET meta == items[i].meta
             idx == i - 1
         IN  IF \/ "height" \notin DOMAIN meta.image_info
                \/ "width" \notin DOMAIN meta.image_info
             THEN Raise("Exception")
             ELSE ReadMetaLoop(items, i + 1,
                     Append(imgs, [id |-> idx,
                                   license |-> None,
                                   dataset |-> items[i].key[1],
                                   file_name |-> items[i].key[2],
                                   height |-> meta.image_info.height,
                                   width |-> meta.image_info.width,
                                   date_captured |-> None]),
                     [k \in DOMAIN lbls \cup {meta.label_id} |->
                         IF k = meta.label_id THEN [image_id |-> idx]
                         ELSE lbls[k]])

read_meta(mm) == ReadMetaLoop(mm, 1, <<>>, <<>>)

MaxEntries == 3

ImageInfos ==
    {[height |-> 4, width |-> 6], [height |-> 4], [width |-> 6]}
LabelIds == {"L1", "L2"}
MetaItems ==
    [key : {"ds"} \X (1..MaxEntries),
     meta : [image_info : ImageInfos, label_id : LabelIds]]

\* a mapping's keys are distinct
MetaMaps ==
    {mm \in SeqUpTo(MetaItems, MaxEntries) :
        \A i, j \in DOMAIN mm : i # j => mm[i].key # mm[j].key}

InitMeta ==
    /\ phase = "input"
    /\ meta_map \in MetaMaps
    /\ meta_result = Pending
    /\ project_json = [type |-> Absent]
    /\ project_result = Pending
    /\ labels = <<>>
    /\ project_type = None
    /\ categories = <<>>
    /\ images = <<>>
    /\ label_idx = 0
    /\ annotations = <<>>
    /\ labels_result = Pending
    /\ points = <<>>
    /\ image = [width |-> 0, height |-> 0]
    /\ multi_result = Pending

ReadMeta ==
    /\ phase = "input"
    /\ phase' = "done"
    /\ meta_result' = read_meta(meta_map)
    /\ UNCHANGED <<project_json, project_result, meta_map, labels,
                   project_type, categories, images, label_idx, annotations,
                   labels_result, points, image, multi_result>>

NextMeta == ReadMeta

SpecMeta == InitMeta /\ [][NextMeta]_vars

HasSize(item) ==
    /\ "height" \in DOMAIN item.meta.image_info
    /\ "width" \in DOMAIN item.meta.image_info

\* the images are numbered 0..n-1 in iteration order
ImagesInOrder ==
    /\ Len(meta_result.images) = Len(meta_map)
    /\ \A i \in DOMAIN meta_map :
          /\ meta_result.images[i].id = i - 1
          /\ meta_result.images[i].dataset = meta_map[i].key[1]
          /\ meta_result.images[i].file_name = meta_map[i].key[2]
          /\ meta_result.images[i].height = meta_map[i].meta.image_info.height
          /\ meta_result.images[i].width = meta_map[i].meta.image_info.width

\* C10 as stated: when every entry has height and width the images have ids
\* 0..n-1 in iteration order and the label table maps the label id of the
\* entry at position i to image id i, for every entry, also when two entries
\* carry the same label id; when an entry lacks height or width read_meta
\* fails.
C10_EveryLabelKeepsItsImage ==
    phase = "done" =>
        IF \A i \in DOMAIN meta_map : HasSize(meta_map[i])
        THEN /\ meta_result.ok
             /\ ImagesInOrder
             /\ \A i \in DOMAIN meta_map :
                   /\ meta_map[i].meta.label_id \in DOMAIN meta_result.labels
                   /\ meta_result.labels[meta_map[i].meta.label_id].image_id
                         = i - 1
        ELSE ~meta_result.ok

\* C10 amended: the label table maps each label id to the image id of the
\* last entry that carries it (so entry i's label maps to image id i when no
\* later entry carries the same label id), and holds no other label id.
C10_LastEntryOfALabelWins ==
    phase = "done" =>
        IF \A i \in DOMAIN meta_map : HasSize(meta_map[i])
        THEN /\ meta_result.ok
             /\ ImagesInOrder
             /\ DOMAIN meta_result.labels =
                    {meta_map[i].meta.label_id : i \in DOMAIN meta_map}
             /\ \A i \in DOMAIN meta_map :
                   (\A j \in DOMAIN meta_map :
                        j > i => meta_map[j].meta.label_id
                                     # meta_map[i].meta.label_id)
                   => meta_result.labels[meta_map[i].meta.label_id].image_id
                          = i - 1
        ELSE /\ ~meta_result.ok
             /\ DOMAIN meta_result = {"ok", "error"}

C10_Witness ==
    /\ phase = "done"
    /\ meta_result.ok
    /\ Len(meta_map) = 3
    /\ meta_map[1].meta.label_id = "L1"
    /\ meta_map[2].meta.label_id = "L2"
    /\ meta_map[3].meta.label_id = "L1"
    /\ meta_result.labels["L1"].image_id = 2
    /\ meta_result.labels["L2"].image_id = 1

(***************************************************************************)
(* Numbers.  A number of the program (a JSON int or float, a Decimal) is   *)
(* the integer n standing for n / Unit, so that the products of values     *)
(* with three fraction digits are exact.  A quantized Decimal is an        *)
(* integer count of hundredths.                                            *)
(***************************************************************************)
Unit == 1000 * 1000
Hundredth == Unit \div 100

\* a / b rounded toward zero, b > 0
TruncDiv(a, b) == IF a >= 0 THEN a \div b ELSE -((-a) \div b)

\* a variant of the quantization that rounds toward minus infinity
QuantizeFloor(x) == x \div Hundredth

\* Decimal(x).quantize(Decimal('.01'), rounding=ROUND_DOWN), in hundredths
Quantize(x) == TruncDiv(x, Hundredth)

\* the product of two numbers that have at most three fraction digits
Mul(a, b) == (a \div 1000) * (b \div 1000)

SetMin(S) == CHOOSE a \in S : \A b \in S : a <= b
SetMax(S) == CHOOSE a \in S : \A b \in S : a >= b

RECURSIVE Flatten(_)
\* the concatenation of a sequence of sequences
Flatten(ss) == IF ss = <<>> THEN <<>> ELSE Head(ss) \o Flatten(Tail(ss))

(***************************************************************************)
(* Masks.  A mask over an image is the set of its pixels <<x, y>> of value *)
(* 1.  ImageDraw.Draw(mask_image).polygon(xy, outline, fill) is modelled   *)
(* for the polygons that are axis-parallel rectangles: the vertex          *)
(* coordinates are cut to integers, the closed rectangle is set to fill    *)
(* and then, when outline differs from fill, its border is set to outline; *)
(* pixels outside the image are clipped.                                   *)
(***************************************************************************)
PixelsOf(img) == (0..(img.width - 1)) \X (0..(img.height - 1))

\* to_coco_polygon: [x1, y1, x2, y2, ...]
to_coco_polygon(suite_poly) ==
    Flatten([i \in DOMAIN suite_poly |-> <<suite_poly[i].x, suite_poly[i].y>>])

PolygonXs(polygon) ==
    {TruncDiv(polygon[i], Unit) : i \in {j \in DOMAIN polygon : j % 2 = 1}}
PolygonYs(polygon) ==
    {TruncDiv(polygon[i], Unit) : i \in {j \in DOMAIN polygon : j % 2 = 0}}

Filled(polygon, img) ==
    {p \in PixelsOf(img) :
        /\ SetMin(PolygonXs(polygon)) <= p[1] /\ p[1] <= SetMax(PolygonXs(polygon))
        /\ SetMin(PolygonYs(polygon)) <= p[2] /\ p[2] <= SetMax(PolygonYs(polygon))}

Border(polygon, img) ==
    {p \in Filled(polygon, img) :
        \/ p[1] \in {SetMin(PolygonXs(polygon)), SetMax(PolygonXs(polygon))}
        \/ p[2] \in {SetMin(PolygonYs(polygon)), SetMax(PolygonYs(polygon))}}

DrawPolygon(mask, polygon, outline, fill, img) ==
    LET filled == IF fill = 1 THEN mask \cup Filled(polygon, img)
                  ELSE mask \ Filled(polygon, img)
    IN  IF outline = 1 THEN filled \cup Border(polygon, img)
        ELSE filled \ Border(polygon, img)

(***************************************************************************)
(* coco_mask.encode, toBbox and area over a mask in column-major order.    *)
(***************************************************************************)
RECURSIVE RleCounts(_, _, _, _, _, _)
\* the run lengths of the mask read column by column, starting with the
\* (possibly empty) run of zeros; k is the next pixel, p the current value,
\* c the length of the current run
RleCounts(mask, img, k, p, c, counts) ==
    IF k = img.width * img.height THEN Append(counts, c)
    ELSE LET v == IF <<k \div img.height, k % img.height>> \in mask
                  THEN 1 ELSE 0
         IN  IF v # p
             THEN RleCounts(mask, img, k + 1, v, 1, Append(counts, c))
             ELSE RleCounts(mask, img, k + 1, p, c + 1, counts)

Encode(mask, img) ==
    [size |-> <<img.height, img.width>>,
     counts |-> RleCounts(mask, img, 0, 0, 0, <<>>)]

RECURSIVE SumOdd(_, _)
\* the sum of the runs of ones: counts[2], counts[4], ...
SumOdd(counts, j) ==
    IF j > Len(counts) THEN 0 ELSE counts[j] + SumOdd(counts, j + 2)

RleArea(rle) == SumOdd(rle.counts, 2) * Unit

RleToBbox(mask) ==
    IF mask = {} THEN <<0, 0, 0, 0>>
    ELSE LET xs == {p[1] : p \in mask}
             ys == {p[2] : p \in mask}
         IN  <<SetMin(xs) * Unit, SetMin(ys) * Unit,
               (SetMax(xs) - SetMin(xs) + 1) * Unit,
               (SetMax(ys) - SetMin(ys) + 1) * Unit>>

(***************************************************************************)
(* convert_polygon_to_coco and convert_multi_polygon_to_coco               *)
(***************************************************************************)
convert_polygon_to_coco(pts, img) ==
    LET polygon == to_coco_polygon(pts)
        mask == DrawPolygon({}, polygon, 1, 1, img)
        rle == Encode(mask, img)
    IN  [bbox |-> RleToBbox(mask), area |-> RleArea(rle),
         polygons |-> <<polygon>>, rle |-> rle]

RECURSIVE DrawHoles(_, _, _, _)
\* for hole in face_polygons[1:]: polygon(hole, outline=1, fill=0)
DrawHoles(mask, face, j, img) ==
    IF j > Len(face) THEN mask
    ELSE DrawHoles(DrawPolygon(mask, to_coco_polygon(face[j]), 1, 0, img),
                   face, j + 1, img)

RECURSIVE DrawFaces(_, _, _, _)
\* for face_polygons in points: the outer ring, then its holes
DrawFaces(mask, faces, i, img) ==
    IF i > Len(faces) THEN mask
    ELSE DrawFaces(
            DrawHoles(
                DrawPolygon(mask, to_coco_polygon(faces[i][1]), 1, 1, img),
                faces[i], 2, img),
            faces, i + 1, img)

convert_multi_polygon_to_coco(pts, img) ==
    LET mask == DrawFaces({}, pts, 1, img)
        rle == Encode(mask, img)
    IN  [bbox |-> RleToBbox(mask), area |-> RleArea(rle),
         polygons |-> None, rle |-> rle]

(***************************************************************************)
(* Multi-polygons: rectangles with corners on the pixel grid of a          *)
(* Size x Size image, the corner Size lying one past the last pixel.       *)
(***************************************************************************)
Size == 3

Pt(px, py) == [x |-> px * Unit, y |-> py * Unit]
Rect(x0, y0, x1, y1) == <<Pt(x0, y0), Pt(x1, y0), Pt(x1, y1), Pt(x0, y1)>>

Rects ==
    {Rect(x0, y0, x1, y1) : <<x0, y0, x1, y1>> \in
        {c \in (0..Size) \X (0..Size) \X (0..Size) \X (0..Size) :
            c[1] < c[3] /\ c[2] < c[4]}}

Faces == {<<r>> : r \in Rects} \cup (Rects \X Rects)

SecondFaces == {<<Rect(0, 0, 1, 1)>>, <<Rect(1, 1, Size, Size), Rect(1, 1, Size, Size)>>}

MultiPolygons == {<<f>> : f \in Faces} \cup (Faces \X SecondFaces)

InitMulti ==
    /\ phase = "input"
    /\ points \in MultiPolygons
    /\ image = [width |-> Size, height |-> Size]
    /\ multi_result = Pending
    /\ project_json = [type |-> Absent]
    /\ project_result = Pending
    /\ meta_map = <<>>
    /\ meta_result = Pending
    /\ labels = <<>>
    /\ project_type = None
    /\ categories = <<>>
    /\ images = <<>>
    /\ label_idx = 0
    /\ annotations = <<>>
    /\ labels_result = Pending

ConvertMultiPolygon ==
    /\ phase = "input"
    /\ phase' = "done"
    /\ multi_result' = [ok |-> TRUE] @@ convert_multi_polygon_to_coco(points, image)
    /\ UNCHANGED <<project_json, project_result, meta_map, meta_result, labels,
                   project_type, categories, images, label_idx, annotations,
                   labels_result, points, image>>

NextMulti == ConvertMultiPolygon

SpecMulti == InitMulti /\ [][NextMulti]_vars

\* the corners of a rectangle ring, in pixels
X0(ring) == SetMin({ring[i].x : i \in DOMAIN ring}) \div Unit
X1(ring) == SetMax({ring[i].x : i \in DOMAIN ring}) \div Unit
Y0(ring) == SetMin({ring[i].y : i \in DOMAIN ring}) \div Unit
Y1(ring) == SetMax({ring[i].y : i \in DOMAIN ring}) \div Unit

Inside(hole, outer) ==
    /\ X0(outer) <= X0(hole) /\ X1(hole) <= X1(outer)
    /\ Y0(outer) <= Y0(hole) /\ Y1(hole) <= Y1(outer)

\* the pixels of the closed rectangle that lie in the image
ClosedArea(ring) ==
    Cardinality({p \in PixelsOf(image) :
        /\ X0(ring) <= p[1] /\ p[1] <= X1(ring)
        /\ Y0(ring) <= p[2] /\ p[2] <= Y1(ring)})

\* C9: a multi-polygon of one face with an outer ring and one hole ring that
\* lies inside the outer ring has an area strictly smaller than the area of
\* the outer ring rasterized alone, however small the hole.
C9_HoleShrinksArea ==
    (phase = "done" /\ Len(points) = 1 /\ Len(points[1]) = 2
        /\ Inside(points[1][2], points[1][1])) =>
        multi_result.area < ClosedArea(points[1][1]) * Unit

\* The part of C9 the code satisfies: the area is the outer ring's area less
\* the pixels strictly inside the hole's outline, so it is smaller exactly
\* when the hole is more than one pixel step wide and high.
C9_OnlyTheHoleInteriorIsCleared ==
    (phase = "done" /\ Len(points) = 1 /\ Len(points[1]) = 2
        /\ Inside(points[1][2], points[1][1])) =>
        LET hole == points[1][2]
            interior == Cardinality({p \in PixelsOf(image) :
                            /\ X0(hole) < p[1] /\ p[1] < X1(hole)
                            /\ Y0(hole) < p[2] /\ p[2] < Y1(hole)})
        IN  multi_result.area = (ClosedArea(points[1][1]) - interior) * Unit

(***************************************************************************)
(* Label translators.  A segmentation is None (NoSegmentation), a list of  *)
(* one polygon point list (form "list") or the RLE dict (size, counts).    *)
(***************************************************************************)
NoSegmentation == [form |-> None]
PolygonList(polygons) == [form |-> "list", items |-> polygons]
IsNone(seg) == "form" \in DOMAIN seg /\ seg.form = None

RECURSIVE DeathValleyLabelLoopDropUnknown(_, _, _, _, _)
\* a variant that drops an object whose class is not in the category map
DeathValleyLabelLoopDropUnknown(objects, category_map, img, i, annos) ==
    IF i > Len(objects) THEN [ok |-> TRUE, annotations |-> annos]
    ELSE LET o == objects[i]
             poly == convert_polygon_to_coco(o.shape.polygon, img)
             geometry ==
                 IF "bbox" \in DOMAIN o.shape
                 THEN [bbox |-> <<o.shape.x, o.shape.y,
                                  o.shape.width, o.shape.height>>,
                       area |-> Mul(o.shape.width, o.shape.height),
                       segmentation |-> NoSegmentation]
                 ELSE [bbox |-> poly.bbox, area |-> poly.area,
                       segmentation |-> PolygonList(poly.polygons)]
         IN  IF "bbox" \notin DOMAIN o.shape /\ "polygon" \notin DOMAIN o.shape
             THEN DeathValleyLabelLoopDropUnknown(objects, category_map, img,
                                                  i + 1, annos)
             ELSE IF o.class \notin DOMAIN category_map
             THEN DeathValleyLabelLoopDropUnknown(objects, category_map, img,
                                                  i + 1, annos)
             ELSE DeathValleyLabelLoopDropUnknown(objects, category_map, img,
                     i + 1,
                     Append(annos,
                         [category_id |-> category_map[o.class]] @@ geometry))

RECURSIVE DeathValleyLabelLoop(_, _, _, _, _)
\* the loop over label['result']['objects'], annos being the list so far
DeathValleyLabelLoop(objects, category_map, img, i, annos) ==
    IF i > Len(objects) THEN [ok |-> TRUE, annotations |-> annos]
    ELSE LET o == objects[i]
             poly == convert_polygon_to_coco(o.shape.polygon, img)
             geometry ==
                 IF "bbox" \in DOMAIN o.shape
                 THEN [bbox |-> <<o.shape.x, o.shape.y,
                                  o.shape.width, o.shape.height>>,
                       area |-> Mul(o.shape.width, o.shape.height),
                       segmentation |-> NoSegmentation]
                 ELSE [bbox |-> poly.bbox, area |-> poly.area,
                       segmentation |-> PolygonList(poly.polygons)]
         IN  IF "bbox" \notin DOMAIN o.shape /\ "polygon" \notin DOMAIN o.shape
             THEN DeathValleyLabelLoop(objects, category_map, img, i + 1, annos)
             ELSE IF o.class \notin DOMAIN category_map
             THEN Raise("KeyError")
             ELSE DeathValleyLabelLoop(objects, category_map, img, i + 1,
                     Append(annos,
                         [category_id |-> category_map[o.class]] @@ geometry))

read_death_valley_label(label, category_map, img) ==
    DeathValleyLabelLoop(label.result.objects, category_map, img, 1, <<>>)

ANNO_KEY(ptype) ==
    IF ptype = "siesta-v1" THEN "annotationType" ELSE "annotation_type"
CLASS_NAME_KEY(ptype) ==
    IF ptype = "siesta-v1" THEN "className" ELSE "class_name"

\* o['annotation'].get('multiple', False)
Multiple(annotation) ==
    IF "multiple" \in DOMAIN annotation THEN annotation.multiple ELSE FALSE

SiestaGeometry(o, ptype, img) ==
    IF o[ANNO_KEY(ptype)] = "box"
    THEN LET c == o.annotation.coord
         IN  [bbox |-> <<c.x, c.y, c.width, c.height>>,
              area |-> Mul(c.width, c.height),
              segmentation |-> NoSegmentation]
    ELSE IF Multiple(o.annotation)
    THEN LET multi ==
                 convert_multi_polygon_to_coco(o.annotation.coord.points, img)
         IN  [bbox |-> multi.bbox, area |-> multi.area,
              segmentation |-> multi.rle]
    ELSE LET poly == convert_polygon_to_coco(o.annotation.coord.points, img)
         IN  [bbox |-> poly.bbox, area |-> poly.area,
              segmentation |-> PolygonList(poly.polygons)]

RECURSIVE SiestaLabelLoopStopAtUnrecognized(_, _, _, _, _, _)
\* a variant that ends the loop at the first object of another type
SiestaLabelLoopStopAtUnrecognized(objects, ptype, category_map, img, i, annos) ==
    IF i > Len(objects) THEN [ok |-> TRUE, annotations |-> annos]
    ELSE LET o == objects[i]
         IN  IF o[ANNO_KEY(ptype)] \notin {"box", "polygon"}
             THEN [ok |-> TRUE, annotations |-> annos]
             ELSE IF o[CLASS_NAME_KEY(ptype)] \notin DOMAIN category_map
             THEN Raise("KeyError")
             ELSE SiestaLabelLoopStopAtUnrecognized(objects, ptype,
                     category_map, img, i + 1,
                     Append(annos,
                         [category_id |-> category_map[o[CLASS_NAME_KEY(ptype)]]]
                             @@ SiestaGeometry(o, ptype, img)))

RECURSIVE SiestaLabelLoop(_, _, _, _, _, _)
\* the loop over label['objects'], annos being the list so far
SiestaLabelLoop(objects, ptype, category_map, img, i, annos) ==
    IF i > Len(objects) THEN [ok |-> TRUE, annotations |-> annos]
    ELSE LET o == objects[i]
         IN  IF o[ANNO_KEY(ptype)] \notin {"box", "polygon"}
             THEN SiestaLabelLoop(objects, ptype, category_map, img, i + 1, annos)
             ELSE IF o[CLASS_NAME_KEY(ptype)] \notin DOMAIN category_map
             THEN Raise("KeyError")
             ELSE SiestaLabelLoop(objects, ptype, category_map, img, i + 1,
                     Append(annos,
                         [category_id |-> category_map[o[CLASS_NAME_KEY(ptype)]]]
                             @@ SiestaGeometry(o, ptype, img)))

read_siesta_label(label, ptype, category_map, img) ==
    SiestaLabelLoop(label.objects, ptype, category_map, img, 1, <<>>)

(***************************************************************************)
(* read_labels.  labels is the sequence of the mapping's values in         *)
(* iteration order.  One step of the model is one turn of the loop over    *)
(* the labels.                                                             *)
(***************************************************************************)
RECURSIVE CategoryMapByPosition(_, _, _)
\* a variant that maps a name to the category's position in the list
CategoryMapByPosition(cats, i, d) ==
    IF i > Len(cats) THEN d
    ELSE CategoryMapByPosition(cats, i + 1,
            [k \in DOMAIN d \cup {cats[i].name} |->
                IF k = cats[i].name THEN i ELSE d[k]])

RECURSIVE CategoryMap(_, _, _)
\* {c['name']: c['id'] for c in categories}
CategoryMap(cats, i, d) ==
    IF i > Len(cats) THEN d
    ELSE CategoryMap(cats, i + 1,
            [k \in DOMAIN d \cup {cats[i].name} |->
                IF k = cats[i].name THEN cats[i].id ELSE d[k]])

RECURSIVE ImageMap(_, _, _)
\* {i['id']: i for i in images}
ImageMap(imgs, i, d) ==
    IF i > Len(imgs) THEN d
    ELSE ImageMap(imgs, i + 1,
            [k \in DOMAIN d \cup {imgs[i].id} |->
                IF k = imgs[i].id THEN imgs[i] ELSE d[k]])

\* the dispatch on project_type; image_map[image_id] is looked up first
AnnotationsInLabel(info, ptype, category_map, image_map) ==
    IF ptype = "death-valley"
    THEN IF info.image_id \notin DOMAIN image_map THEN Raise("KeyError")
         ELSE read_death_valley_label(info.label, category_map,
                                      image_map[info.image_id])
    ELSE IF ptype \in {"siesta-v1", "siesta-v2"}
    THEN IF info.image_id \notin DOMAIN image_map THEN Raise("KeyError")
         ELSE read_siesta_label(info.label, ptype, category_map,
                                image_map[info.image_id])
    ELSE Raise("NotImplementedError")

\* the rounding of one shape record
Quantized(anno) ==
    [category_id |-> anno.category_id,
     segmentation |->
         IF ~IsNone(anno.segmentation) /\ "counts" \notin DOMAIN anno.segmentation
         THEN PolygonList(<<[j \in DOMAIN anno.segmentation.items[1] |->
                                Quantize(anno.segmentation.items[1][j])]>>)
         ELSE anno.segmentation,
     bbox |-> [j \in DOMAIN anno.bbox |-> Quantize(anno.bbox[j])],
     area |-> Quantize(anno.area)]

RECURSIVE AppendAnnotationsNumberedPerLabel(_, _, _, _)
\* a variant that numbers the annotations of each label from 1
AppendAnnotationsNumberedPerLabel(annos, in_label, k, image_id) ==
    IF k > Len(in_label) THEN annos
    ELSE AppendAnnotationsNumberedPerLabel(
            Append(annos, Quantized(in_label[k]) @@
                          [id |-> k, image_id |-> image_id, iscrowd |-> 0]),
            in_label, k + 1, image_id)

RECURSIVE AppendAnnotations(_, _, _, _)
\* for anno in annotations_in_label: round it and append it
AppendAnnotations(annos, in_label, k, image_id) ==
    IF k > Len(in_label) THEN annos
    ELSE AppendAnnotations(
            Append(annos, Quantized(in_label[k]) @@
                          [id |-> Len(annos) + 1, image_id |-> image_id,
                           iscrowd |-> 0]),
            in_label, k + 1, image_id)

ReadLabelsStep ==
    /\ phase = "run"
    /\ label_idx < Len(labels)
    /\ LET info == labels[label_idx + 1]
           in_label == AnnotationsInLabel(info, project_type,
                           CategoryMap(categories, 1, <<>>),
                           ImageMap(images, 1, <<>>))
       IN  IF in_label.ok
           THEN /\ annotations' = AppendAnnotations(annotations,
                                      in_label.annotations, 1, info.image_id)
                /\ label_idx' = label_idx + 1
                /\ UNCHANGED <<phase, labels_result>>
           ELSE /\ labels_result' = in_label
                /\ phase' = "done"
                /\ UNCHANGED <<annotations, label_idx>>
    /\ UNCHANGED <<project_json, project_result, meta_map, meta_result, labels,
                   project_type, categories, images, points, image,
                   multi_result>>

ReadLabelsReturn ==
    /\ phase = "run"
    /\ label_idx = Len(labels)
    /\ phase' = "done"
    /\ labels_result' = [ok |-> TRUE, annotations |-> annotations]
    /\ UNCHANGED <<project_json, project_result, meta_map, meta_result, labels,
                   project_type, categories, images, label_idx, annotations,
                   points, image, multi_result>>

(***************************************************************************)
(* Arguments of read_labels.                                               *)
(***************************************************************************)
MaxLabels == 2
MaxObjects == 2
MaxLabelObjects == 3

\* two categories share the name car; no category is named cat
CategoryList ==
    <<[id |-> 5, name |-> "car", supercategory |-> None],
      [id |-> 7, name |-> "bus", supercategory |-> "g1"],
      [id |-> 9, name |-> "car", supercategory |-> "g1"]>>

ImageList ==
    <<[id |-> 0, license |-> None, dataset |-> "ds", file_name |-> "a",
       height |-> 2, width |-> 3, date_captured |-> None],
      [id |-> 1, license |-> None, dataset |-> "ds", file_name |-> "b",
       height |-> 3, width |-> 2, date_captured |-> None]>>

\* image ids of the labels; no image has id 4
LabelImageIds == {1, 4}
ClassNames == {"car", "cat"}

Milli(n) == n * 1000

BoxCoord ==
    [x |-> Milli(1500), y |-> Milli(250), width |-> Milli(2000),
     height |-> Milli(1125)]

DeathValleyShapes ==
    {[bbox |-> TRUE] @@ BoxCoord,
     [polygon |-> Rect(0, 1, 1, 2)],
     [circle |-> TRUE]}

DeathValleyLabelObjects == [class : ClassNames, shape : DeathValleyShapes]

SiestaAnnotations(type) ==
    IF type = "box" THEN {[coord |-> BoxCoord]}
    ELSE IF type = "polygon"
    THEN {[coord |-> [points |-> Rect(0, 1, 1, 2)]],
          [coord |-> [points |-> <<<<Rect(0, 0, 2, 2), Rect(0, 0, 2, 2)>>>>],
           multiple |-> TRUE]}
    ELSE {[coord |-> [x |-> Milli(1500), y |-> Milli(250)]]}

SiestaV1LabelObjects ==
    UNION {[annotationType : {t}, className : ClassNames,
            annotation : SiestaAnnotations(t)] : t \in AnnotationTypes}

SiestaV2LabelObjects ==
    UNION {[annotation_type : {t}, class_name : ClassNames,
            annotation : SiestaAnnotations(t)] : t \in AnnotationTypes}

\* the labels of a project of the given type with n objects
LabelInfos(ptype, n) ==
    IF ptype = "siesta-v1"
    THEN [image_id : LabelImageIds,
          label : [objects : [1..n -> SiestaV1LabelObjects]]]
    ELSE IF ptype = "siesta-v2"
    THEN [image_id : LabelImageIds,
          label : [objects : [1..n -> SiestaV2LabelObjects]]]
    ELSE [image_id : LabelImageIds,
          label : [result : [objects : [1..n -> DeathValleyLabelObjects]]]]

\* the objects of a label of a project of the given type
ObjectsOf(ptype, label) ==
    IF ptype \in {"siesta-v1", "siesta-v2"} THEN label.objects
    ELSE label.result.objects

RECURSIVE TotalObjects(_, _, _)
TotalObjects(ptype, infos, i) ==
    IF i > Len(infos) THEN 0
    ELSE Len(ObjectsOf(ptype, infos[i].label))
            + TotalObjects(ptype, infos, i + 1)

ProjectTypes == {"death-valley", "siesta-v1", "siesta-v2", "siesta-v3"}

InitLabels ==
    /\ phase = "input"
    /\ project_type \in ProjectTypes
    /\ labels = <<>>
    /\ categories = CategoryList
    /\ images = ImageList
    /\ label_idx = 0
    /\ annotations = <<>>
    /\ labels_result = Pending
    /\ project_json = [type |-> Absent]
    /\ project_result = Pending
    /\ meta_map = <<>>
    /\ meta_result = Pending
    /\ points = <<>>
    /\ image = [width |-> 0, height |-> 0]
    /\ multi_result = Pending

\* the caller puts one more label into the mapping: at most max_labels
\* labels with at most max_objects objects in all
AddLabelOf(max_labels, max_objects) ==
    /\ phase = "input"
    /\ Len(labels) < max_labels
    /\ \E k \in 0..(max_objects - TotalObjects(project_type, labels, 1)) :
          \E info \in LabelInfos(project_type, k) :
              labels' = Append(labels, info)
    /\ UNCHANGED <<phase, project_json, project_result, meta_map, meta_result,
                   project_type, categories, images, label_idx, annotations,
                   labels_result, points, image, multi_result>>

AddLabel == AddLabelOf(MaxLabels, MaxObjects)

AddOnlyLabel == AddLabelOf(1, MaxLabelObjects)

\* the call of read_labels: annotations = []
CallReadLabels ==
    /\ phase = "input"
    /\ phase' = "run"
    /\ annotations' = <<>>
    /\ label_idx' = 0
    /\ UNCHANGED <<project_json, project_result, meta_map, meta_result, labels,
                   project_type, categories, images, labels_result, points,
                   image, multi_result>>

NextLabelsRun == AddLabel \/ CallReadLabels \/ ReadLabelsStep \/ ReadLabelsReturn

SpecLabels == InitLabels /\ [][NextLabelsRun]_vars

\* one label with up to MaxLabelObjects objects
NextTranslate ==
    AddOnlyLabel \/ CallReadLabels \/ ReadLabelsStep \/ ReadLabelsReturn

SpecTranslate == InitLabels /\ [][NextTranslate]_vars

(***************************************************************************)
(* One label with one object whose numbers have fraction digits.           *)
(***************************************************************************)
QuantValues == {Milli(12345), Milli(-12345), Milli(1000), Milli(-5)}
CornerLow == {Milli(-1005), Milli(250)}
CornerHigh == {Milli(1995), Milli(2250)}

QuantCoords ==
    [x : QuantValues, y : QuantValues, width : QuantValues,
     height : QuantValues]

QuantRings ==
    {<<[x |-> c[1], y |-> c[2]], [x |-> c[3], y |-> c[2]],
       [x |-> c[3], y |-> c[4]], [x |-> c[1], y |-> c[4]]>> :
        c \in CornerLow \X CornerLow \X CornerHigh \X CornerHigh}

QuantDeathValleyShapes ==
    {[bbox |-> TRUE] @@ c : c \in QuantCoords}
        \cup {[polygon |-> r] : r \in QuantRings}

QuantSiestaObjects ==
    {[annotation_type |-> "box", class_name |-> "car",
      annotation |-> [coord |-> c]] : c \in QuantCoords}
    \cup {[annotation_type |-> "polygon", class_name |-> "car",
           annotation |-> [coord |-> [points |-> r]]] : r \in QuantRings}
    \cup {[annotation_type |-> "polygon", class_name |-> "car",
           annotation |-> [coord |-> [points |-> <<<<r, Rect(0, 0, 2, 2)>>>>],
                           multiple |-> TRUE]] : r \in QuantRings}

QuantLabels ==
    [project_type : {"death-valley"},
     labels : {<<[image_id |-> 1,
                  label |-> [result |-> [objects |-> <<o>>]]]>> :
                  o \in [class : {"car"}, shape : QuantDeathValleyShapes]}]
    \cup
    [project_type : {"siesta-v2"},
     labels : {<<[image_id |-> 1, label |-> [objects |-> <<o>>]]>> :
                  o \in QuantSiestaObjects}]

InitQuant ==
    /\ phase = "run"
    /\ \E arg \in QuantLabels :
          /\ project_type = arg.project_type
          /\ labels = arg.labels
    /\ categories = CategoryList
    /\ images = ImageList
    /\ label_idx = 0
    /\ annotations = <<>>
    /\ labels_result = Pending
    /\ project_json = [type |-> Absent]
    /\ project_result = Pending
    /\ meta_map = <<>>
    /\ meta_result = Pending
    /\ points = <<>>
    /\ image = [width |-> 0, height |-> 0]
    /\ multi_result = Pending

NextQuant == ReadLabelsStep \/ ReadLabelsReturn

SpecQuant == InitQuant /\ [][NextQuant]_vars

(***************************************************************************)
(* Properties of read_labels.                                              *)
(***************************************************************************)
KnownDialects == {"death-valley", "siesta-v1", "siesta-v2"}

\* the shape type of an object is one the translator of the dialect emits
Recognized(ptype, o) ==
    IF ptype = "death-valley"
    THEN "bbox" \in DOMAIN o.shape \/ "polygon" \in DOMAIN o.shape
    ELSE IF ptype = "siesta-v1" THEN o.annotationType \in {"box", "polygon"}
    ELSE o.annotation_type \in {"box", "polygon"}

\* the class an object names
ClassOf(ptype, o) ==
    IF ptype = "death-valley" THEN o.class
    ELSE IF ptype = "siesta-v1" THEN o.className
    ELSE o.class_name

CategoryNames == {categories[i].name : i \in DOMAIN categories}
CategoryIds == {categories[i].id : i \in DOMAIN categories}
ImageIds == {images[i].id : i \in DOMAIN images}

\* the id of the last category of the given name
LastCategoryId(name) ==
    LET named == {i \in DOMAIN categories : categories[i].name = name}
    IN  categories[CHOOSE i \in named : \A j \in named : j <= i].id

\* every label's image exists
ImagesExist == \A i \in DOMAIN labels : labels[i].image_id \in ImageIds

\* the objects of the labels, as pairs <<label index, object index>>
ObjectIndices ==
    UNION {{<<i, j>> : j \in DOMAIN ObjectsOf(project_type, labels[i].label)} :
              i \in DOMAIN labels}

ObjectAt(ij) == ObjectsOf(project_type, labels[ij[1]].label)[ij[2]]

RecognizedIndices ==
    {ij \in ObjectIndices : Recognized(project_type, ObjectAt(ij))}

\* <<i, j>> comes before <<k, l>> in the order of the run
Before(a, b) == a[1] < b[1] \/ (a[1] = b[1] /\ a[2] < b[2])

\* the k-th recognized object in the order of the run
KthRecognized(k) ==
    CHOOSE ij \in RecognizedIndices :
        Cardinality({b \in RecognizedIndices : Before(b, ij)}) = k - 1

\* C4: the annotations built so far have ids 1, 2, ..., N in list order at
\* every step of the run, over any number of labels and of skipped shapes,
\* and the list returned is the list built.
C4_AnnotationIdsSequential ==
    /\ \A k \in DOMAIN annotations : annotations[k].id = k
    /\ (phase = "done" /\ labels_result.ok) =>
           labels_result.annotations = annotations

C4_Witness ==
    /\ phase = "done"
    /\ labels_result.ok
    /\ Len(labels) = 2
    /\ Len(ObjectsOf(project_type, labels[1].label)) = 1
    /\ Len(ObjectsOf(project_type, labels[2].label)) = 1
    /\ Len(labels_result.annotations) = 2
    /\ labels_result.annotations[2].id = 2

\* C5: in a returned annotation list every category_id is the id of a
\* category passed in and every image_id the id of an image passed in, and a
\* run over a label whose image_id has no image record fails.
C5_ReferencesExist ==
    phase = "done" =>
        /\ labels_result.ok =>
              \A k \in DOMAIN labels_result.annotations :
                  /\ labels_result.annotations[k].category_id \in CategoryIds
                  /\ labels_result.annotations[k].image_id \in ImageIds
        /\ ~ImagesExist => ~labels_result.ok

C5_Witness ==
    /\ phase = "done"
    /\ labels_result.ok
    /\ Len(labels_result.annotations) = 2
    /\ labels_result.annotations[1].category_id = 9
    /\ labels_result.annotations[1].image_id = 1

\* C6 as stated: whenever an object of a label names a class that is not in
\* the category map, read_labels fails and returns no annotation list.
C6_UnknownClassAlwaysFails ==
    (phase = "done" /\ project_type \in KnownDialects) =>
        ((\E ij \in ObjectIndices :
              ClassOf(project_type, ObjectAt(ij)) \notin CategoryNames)
         => ~labels_result.ok)

\* C6 amended: when every label's image exists, read_labels fails exactly
\* when an object of a recognized shape type names a class that is not in
\* the category map; it then raises KeyError and returns no annotation list.
\* An object of an unrecognized shape type is skipped before its class is
\* looked up.
C6_UnknownClassOfRecognizedShapeFails ==
    (phase = "done" /\ project_type \in KnownDialects /\ ImagesExist) =>
        IF \E ij \in RecognizedIndices :
               ClassOf(project_type, ObjectAt(ij)) \notin CategoryNames
        THEN /\ ~labels_result.ok
             /\ labels_result.error = "KeyError"
             /\ DOMAIN labels_result = {"ok", "error"}
        ELSE labels_result.ok

C6_Witness ==
    /\ phase = "done"
    /\ project_type = "death-valley"
    /\ ImagesExist
    /\ Len(labels) = 1
    /\ Len(labels[1].label.result.objects) = 3
    /\ labels[1].label.result.objects[1].class = "car"
    /\ "bbox" \in DOMAIN labels[1].label.result.objects[1].shape
    /\ labels[1].label.result.objects[2].class = "cat"
    /\ "polygon" \in DOMAIN labels[1].label.result.objects[2].shape
    /\ labels[1].label.result.objects[3].class = "car"
    /\ ~labels_result.ok

\* the segmentation an object of a recognized shape type gets
SegmentationKind(seg) ==
    IF IsNone(seg) THEN "None"
    ELSE IF "counts" \in DOMAIN seg THEN "rle" ELSE "list"

ExpectedSegmentationKind(ptype, o) ==
    IF ptype = "death-valley"
    THEN IF "bbox" \in DOMAIN o.shape THEN "None" ELSE "list"
    ELSE IF (IF ptype = "siesta-v1" THEN o.annotationType
             ELSE o.annotation_type) = "box"
    THEN "None"
    ELSE IF "multiple" \in DOMAIN o.annotation /\ o.annotation.multiple
    THEN "rle" ELSE "list"

\* C7: an object of an unrecognized shape type yields no shape record and no
\* error: when the images exist and every recognized object names a known
\* class, read_labels returns one annotation per recognized object, in
\* object order, whatever unrecognized objects stand before or after them.
C7_UnrecognizedShapesSkipped ==
    (phase = "done" /\ project_type \in KnownDialects /\ ImagesExist
        /\ \A ij \in RecognizedIndices :
               ClassOf(project_type, ObjectAt(ij)) \in CategoryNames) =>
        /\ labels_result.ok
        /\ Len(labels_result.annotations) = Cardinality(RecognizedIndices)
        /\ \A k \in DOMAIN labels_result.annotations :
              LET a == labels_result.annotations[k]
                  o == ObjectAt(KthRecognized(k))
              IN  /\ a.image_id = labels[KthRecognized(k)[1]].image_id
                  /\ a.category_id =
                        LastCategoryId(ClassOf(project_type, o))
                  /\ SegmentationKind(a.segmentation) =
                        ExpectedSegmentationKind(project_type, o)

C7_Witness ==
    /\ phase = "done"
    /\ project_type = "siesta-v1"
    /\ labels_result.ok
    /\ Len(labels) = 1
    /\ Len(labels[1].label.objects) = 3
    /\ labels[1].label.objects[1].annotationType = "box"
    /\ labels[1].label.objects[2].annotationType = "keypoint"
    /\ labels[1].label.objects[2].className = "cat"
    /\ labels[1].label.objects[3].annotationType = "polygon"
    /\ Len(labels_result.annotations) = 2
    /\ SegmentationKind(labels_result.annotations[1].segmentation) = "None"
    /\ SegmentationKind(labels_result.annotations[2].segmentation) # "None"

RECURSIVE ShapeRecords(_)
\* the shape records of the labels from the i-th on, in the order of the run
ShapeRecords(i) ==
    IF i > Len(labels) THEN <<>>
    ELSE AnnotationsInLabel(labels[i], project_type,
             CategoryMap(categories, 1, <<>>),
             ImageMap(images, 1, <<>>)).annotations \o ShapeRecords(i + 1)

\* q hundredths is x cut toward zero to two fraction digits
IsTruncation(x, q) ==
    IF x >= 0 THEN q * Hundredth <= x /\ x < (q + 1) * Hundredth
    ELSE (q - 1) * Hundredth < x /\ x <= q * Hundredth

\* C8: every bbox component and the area of an annotation are the shape
\* record's values cut toward zero to two fraction digits; the coordinates
\* of a polygon point list are cut the same way; an RLE segmentation and an
\* absent one are left as they are.
C8_TruncatedToTwoDigits ==
    (phase = "done" /\ labels_result.ok) =>
        LET shapes == ShapeRecords(1)
        IN  /\ Len(labels_result.annotations) = Len(shapes)
            /\ \A k \in DOMAIN shapes :
                  LET a == labels_result.annotations[k]
                      r == shapes[k]
                  IN  /\ Len(a.bbox) = 4
                      /\ \A j \in 1..4 : IsTruncation(r.bbox[j], a.bbox[j])
                      /\ IsTruncation(r.area, a.area)
                      /\ IF SegmentationKind(r.segmentation) = "list"
                         THEN /\ SegmentationKind(a.segmentation) = "list"
                              /\ Len(a.segmentation.items) = 1
                              /\ Len(a.segmentation.items[1]) =
                                     Len(r.segmentation.items[1])
                              /\ \A j \in DOMAIN r.segmentation.items[1] :
                                     IsTruncation(r.segmentation.items[1][j],
                                                  a.segmentation.items[1][j])
                         ELSE a.segmentation = r.segmentation

\* area 12.345 becomes 12.34, x = -12.345 becomes -12.34, y = -0.005 becomes 0
C8_Witness ==
    /\ phase = "done"
    /\ labels_result.ok
    /\ Len(labels_result.annotations) = 1
    /\ ShapeRecords(1)[1].area = Milli(12345)
    /\ labels_result.annotations[1].area = 1234
    /\ ShapeRecords(1)[1].bbox[1] = Milli(-12345)
    /\ labels_result.annotations[1].bbox[1] = -1234
    /\ ShapeRecords(1)[1].bbox[2] = Milli(-5)
    /\ labels_result.annotations[1].bbox[2] = 0

====
